---------------------------- MODULE Spec2Model ----------------------------
(***************************************************************************)
(* Retrieval and request throttling of the customer RAG chatbot.           *)
(*                                                                         *)
(* Strings are TLA+ strings; the k-th character of s is SubSeq(s, k, k).   *)
(* The record collection customers.json is not part of the sources, so a   *)
(* small collection of the same shape stands for it.                       *)
(***************************************************************************)
EXTENDS Integers, Sequences, FiniteSets, TLC

(***************************************************************************)
(* String primitives of the JavaScript runtime used by the sources.        *)
(***************************************************************************)
CharAt(s, k) == SubSeq(s, k, k)

UpperChars == "ABCDEFGHIJKLMNOPQRSTUVWXYZ"
LowerChars == "abcdefghijklmnopqrstuvwxyz"
DigitChars == "0123456789"

IsDigit(c) == \E k \in 1..10 : CharAt(DigitChars, k) = c
IsSpace(c) == c \in {" ", "\t", "\n"}

DigitValue(c) == (CHOOSE k \in 1..10 : CharAt(DigitChars, k) = c) - 1

LowerChar(c) ==
    IF \E k \in 1..26 : CharAt(UpperChars, k) = c
    THEN CharAt(LowerChars, CHOOSE k \in 1..26 : CharAt(UpperChars, k) = c)
    ELSE c

UpperChar(c) ==
    IF \E k \in 1..26 : CharAt(LowerChars, k) = c
    THEN CharAt(UpperChars, CHOOSE k \in 1..26 : CharAt(LowerChars, k) = c)
    ELSE c

\* the characters lo..hi of s, each mapped; halved to keep the recursion shallow
RECURSIVE MapChars(_, _, _, _)
MapChars(s, lo, hi, upper) ==
    IF lo > hi THEN ""
    ELSE IF lo = hi
         THEN (IF upper THEN UpperChar(CharAt(s, lo)) ELSE LowerChar(CharAt(s, lo)))
         ELSE LET mid == (lo + hi) \div 2
              IN  MapChars(s, lo, mid, upper) \o MapChars(s, mid + 1, hi, upper)

toLowerCase(s) == MapChars(s, 1, Len(s), FALSE)
toUpperCase(s) == MapChars(s, 1, Len(s), TRUE)

\* s.substring starting at position k (1-based) begins with w
StartsAt(s, k, w) ==
    /\ k >= 1
    /\ k + Len(w) - 1 <= Len(s)
    /\ SubSeq(s, k, k + Len(w) - 1) = w

\* String.prototype.includes
includes(s, w) == \E k \in 1..(Len(s) + 1) : StartsAt(s, k, w)

\* String.prototype.trim() === ''
IsBlank(s) == \A k \in 1..Len(s) : IsSpace(CharAt(s, k))

\* first position >= k whose character is not whitespace / not a digit
RECURSIVE SkipSpaces(_, _)
SkipSpaces(s, k) ==
    IF k <= Len(s) /\ IsSpace(CharAt(s, k)) THEN SkipSpaces(s, k + 1) ELSE k

RECURSIVE SkipDigits(_, _)
SkipDigits(s, k) ==
    IF k <= Len(s) /\ IsDigit(CharAt(s, k)) THEN SkipDigits(s, k + 1) ELSE k

\* parseInt of a string of decimal digits
RECURSIVE parseInt(_)
parseInt(d) ==
    IF Len(d) = 0 THEN 0
    ELSE 10 * parseInt(SubSeq(d, 1, Len(d) - 1)) + DigitValue(CharAt(d, Len(d)))

\* Array.prototype.slice(0, n)
slice(seq, n) == SubSeq(seq, 1, IF n < Len(seq) THEN n ELSE Len(seq))

Min(a, b) == IF a < b THEN a ELSE b

\* an item also counts as higher than one of equal score
ScoresHigher_orEqual(a, b) == a.num * b.den >= b.num * a.den

\* A score is the rational num/den (den > 0); a scored item is [item, num, den].
\* cmp(a, b) = b.score - a.score is negative exactly when a scores higher.
ScoresHigher(a, b) == a.num * b.den > b.num * a.den

\* Array.prototype.sort((a, b) => b.score - a.score): stable, descending
RECURSIVE InsertSorted(_, _)
InsertSorted(sorted, x) ==
    IF sorted = <<>> THEN <<x>>
    ELSE IF ScoresHigher(Head(sorted), x)
         THEN <<Head(sorted)>> \o InsertSorted(Tail(sorted), x)
         ELSE <<x>> \o sorted

RECURSIVE sortDescending(_)
sortDescending(seq) ==
    IF seq = <<>> THEN <<>>
    ELSE InsertSorted(sortDescending(Tail(seq)), Head(seq))

(***************************************************************************)
(* Regular expressions of the sources.  A match is searched leftmost-first, *)
(* as RegExp.prototype.exec does; MatchAt operators give the position just  *)
(* after the match that starts at k, or 0 when there is none.  Every \d+    *)
(* and \s+ below is followed by a different character class, so the greedy  *)
(* run is the only one that can match.                                      *)
(***************************************************************************)
NoMatch == [found |-> FALSE, group |-> ""]

\* \s+ at k: position after the run, 0 when no whitespace at k
SpacesAt(s, k) == IF SkipSpaces(s, k) > k THEN SkipSpaces(s, k) ELSE 0
\* \d+ at k
DigitsAt(s, k) == IF SkipDigits(s, k) > k THEN SkipDigits(s, k) ELSE 0
\* a literal word at k
WordAt(s, k, w) == IF StartsAt(s, k, w) THEN k + Len(w) ELSE 0
\* word\s+ at k
WordSpacesAt(s, k, w) ==
    IF WordAt(s, k, w) = 0 THEN 0 ELSE SpacesAt(s, WordAt(s, k, w))

\* top\s+(\d+)\s+customers?  at k: the captured digits, "" when no match
TopNCustomersAt(s, k) ==
    LET d == WordSpacesAt(s, k, "top")
        e == IF d = 0 THEN 0 ELSE DigitsAt(s, d)
        f == IF e = 0 THEN 0 ELSE SpacesAt(s, e)
    IN  IF f # 0 /\ StartsAt(s, f, "customer") THEN SubSeq(s, d, e - 1) ELSE ""

\* (\d+)\s+customers?\s+with\s+(most|highest|greatest)  at k
NCustomersWithMostAt(s, k) ==
    LET e == DigitsAt(s, k)
        f == IF e = 0 THEN 0 ELSE SpacesAt(s, e)
        g == IF f = 0 THEN 0 ELSE WordAt(s, f, "customer")
        h == IF g = 0 THEN 0
             ELSE IF StartsAt(s, g, "s") /\ SpacesAt(s, g + 1) # 0
                  THEN SpacesAt(s, g + 1)
                  ELSE SpacesAt(s, g)
        i == IF h = 0 THEN 0 ELSE WordSpacesAt(s, h, "with")
    IN  IF i # 0 /\ \E w \in {"most", "highest", "greatest"} : StartsAt(s, i, w)
        THEN SubSeq(s, k, e - 1) ELSE ""

\* the leftmost position at which At(k) is not "", and its captured group
Leftmost(s, hit) ==
    IF \E k \in 1..Len(s) : hit[k] # ""
    THEN [found |-> TRUE,
          group |-> hit[CHOOSE k \in 1..Len(s) :
                           hit[k] # "" /\ \A j \in 1..(k - 1) : hit[j] = ""]]
    ELSE NoMatch

\* /top\s+(\d+)\s+customers?|(\d+)\s+customers?\s+with\s+(most|highest|greatest)/i
\* group is match[1] || match[2]
topNPattern(s) ==
    LET t == toLowerCase(s)
    IN  Leftmost(t, [k \in 1..Len(t) |->
            IF TopNCustomersAt(t, k) # "" THEN TopNCustomersAt(t, k)
            ELSE NCustomersWithMostAt(t, k)])

\* word\s+(\d+) at k: the captured digits
WordNumberAt(s, k, w) ==
    LET d == WordSpacesAt(s, k, w)
        e == IF d = 0 THEN 0 ELSE DigitsAt(s, d)
    IN  IF e # 0 THEN SubSeq(s, d, e - 1) ELSE ""

\* /more than\s+(\d+)/i
moreThanPattern(s) ==
    LET t == toLowerCase(s)
    IN  Leftmost(t, [k \in 1..Len(t) |-> WordNumberAt(t, k, "more than")])

\* /more than (\d+)/i : exactly one blank before the number
moreThanOneBlankPattern(s) ==
    LET t == toLowerCase(s)
    IN  Leftmost(t, [k \in 1..Len(t) |->
            IF StartsAt(t, k, "more than ") /\ DigitsAt(t, k + 10) # 0
            THEN SubSeq(t, k + 10, DigitsAt(t, k + 10) - 1) ELSE ""])

\* list\s+top\s+(\d+) at k
ListTopNumberAt(s, k) ==
    LET d == WordSpacesAt(s, k, "list")
    IN  IF d = 0 THEN "" ELSE WordNumberAt(s, d, "top")

\* /list\s+top\s+(\d+)|top\s+(\d+)/i
listTopPattern(s) ==
    LET t == toLowerCase(s)
    IN  Leftmost(t, [k \in 1..Len(t) |->
            IF ListTopNumberAt(t, k) # "" THEN ListTopNumberAt(t, k)
            ELSE WordNumberAt(t, k, "top")])

\* /list\s+(\d+)|list\s+top\s+(\d+)/i
listPattern(s) ==
    LET t == toLowerCase(s)
    IN  Leftmost(t, [k \in 1..Len(t) |->
            IF WordNumberAt(t, k, "list") # "" THEN WordNumberAt(t, k, "list")
            ELSE ListTopNumberAt(t, k)])

\* /CUST-\d{5,6}/i : the matched text (match[0]), "" when there is no match
customerIdPattern(s) ==
    LET t == toLowerCase(s)
        IdAt(k) ==
            IF StartsAt(t, k, "cust-") /\ SkipDigits(t, k + 5) >= k + 10
            THEN SubSeq(s, k, Min(SkipDigits(t, k + 5), k + 11) - 1)
            ELSE ""
    IN  Leftmost(t, [k \in 1..Len(t) |-> IdAt(k)])

\* A pattern  w1.*w2.*w3  where each wi is a set of alternative literals:
\* the earliest end of an alternative at or after k, 0 when none occurs
EarliestEnd(s, k, alts) ==
    IF \E j \in k..Len(s) : \E w \in alts : StartsAt(s, j, w)
    THEN CHOOSE e \in 1..(Len(s) + 1) :
            /\ \E j \in k..Len(s) : \E w \in alts : StartsAt(s, j, w) /\ e = j + Len(w)
            /\ \A j \in k..Len(s) : \A w \in alts :
                  StartsAt(s, j, w) => e <= j + Len(w)
    ELSE 0

RECURSIVE MatchesInOrder(_, _, _)
MatchesInOrder(s, k, parts) ==
    IF parts = <<>> THEN TRUE
    ELSE LET e == EarliestEnd(s, k, Head(parts))
         IN  e # 0 /\ MatchesInOrder(s, e, Tail(parts))

\* RegExp.prototype.test of such a pattern with the i flag
test(parts, s) == MatchesInOrder(toLowerCase(s), 1, parts)

(***************************************************************************)
(* The record collection (customerData) and the texts built from a record.  *)
(***************************************************************************)
Customer(id, cid, first, last, email, phone, city, products, notes) ==
    [id |-> id, customerId |-> cid, firstName |-> first, lastName |-> last,
     email |-> email, phoneNumber |-> phone,
     address |-> [street |-> "1 Main St", city |-> city, state |-> "TX",
                  zipCode |-> "73301"],
     products |-> products, notes |-> notes]

Product(type) == [type |-> type]

customerData ==
    << Customer(1, "CUST-100001", "John", "Smith", "js1@x.io", "555-0001", "Austin",
                <<Product("Savings Account"), Product("Credit Card")>>, "vip"),
       Customer(2, "CUST-100002", "Jane", "Doe", "jd@x.io", "555-0002", "Dallas",
                <<Product("Savings Account"), Product("Checking Account"),
                  Product("Credit Card"), Product("Loan")>>, ""),
       Customer(3, "CUST-100003", "John", "Smith", "js3@x.io", "555-0003", "Austin",
                <<>>, ""),
       Customer(4, "CUST-100004", "John", "Smith", "js4@x.io", "555-0004", "Houston",
                <<Product("Savings Account"), Product("Checking Account"),
                  Product("Loan"), Product("Investment")>>, "prefers email"),
       Customer(5, "CUST-100005", "John", "Smith", "js5@x.io", "555-0005", "Austin",
                <<Product("Loan")>>, ""),
       Customer(6, "CUST-100006", "Emma", "Brown", "eb@x.io", "555-0006", "Dallas",
                <<Product("Checking Account"), Product("Fixed Deposit")>>, "") >>

\* a record is referred to by its position in customerData
Records == 1..Len(customerData)

RECURSIVE join(_, _)
join(strs, sep) ==
    IF strs = <<>> THEN ""
    ELSE IF Len(strs) = 1 THEN strs[1]
    ELSE strs[1] \o sep \o join(Tail(strs), sep)

productTypes(c) == [k \in 1..Len(c.products) |-> c.products[k].type]

fullName(c) == c.firstName \o " " \o c.lastName

\* the line break and indentation between two fields of the template literal
FieldBreak == "\n        "

\* the text scored by the lexical search
searchText(c) ==
    FieldBreak \o c.customerId
    \o FieldBreak \o fullName(c)
    \o FieldBreak \o c.email
    \o FieldBreak \o c.phoneNumber
    \o FieldBreak \o c.address.street \o " " \o c.address.city \o " "
                  \o c.address.state \o " " \o c.address.zipCode
    \o FieldBreak \o join(productTypes(c), " ")
    \o FieldBreak \o c.notes
    \o "\n      "

\* customersWithProductCount.sort((a, b) => b.productCount - a.productCount)
sortedCustomers ==
    sortDescending([i \in Records |->
        [item |-> i, num |-> Len(customerData[i].products), den |-> 1]])

items(scored) == [k \in 1..Len(scored) |-> scored[k].item]

(***************************************************************************)
(* Lexical search (simpleSearch): +10 for the whole query, +2 per term of   *)
(* more than two characters, both as substrings of the lower-cased text.    *)
(***************************************************************************)
\* String.prototype.split(/\s+/)
RECURSIVE splitFrom(_, _)
splitFrom(s, k) ==
    IF k > Len(s) THEN <<"">>
    ELSE LET e == CHOOSE j \in k..(Len(s) + 1) :
                     /\ j = Len(s) + 1 \/ IsSpace(CharAt(s, j))
                     /\ \A m \in k..(j - 1) : ~IsSpace(CharAt(s, m))
         IN  IF e > Len(s) THEN <<SubSeq(s, k, Len(s))>>
             ELSE <<SubSeq(s, k, e - 1)>> \o splitFrom(s, SkipSpaces(s, e))

split(s) == splitFrom(s, 1)

RECURSIVE termScore(_, _)
termScore(terms, text) ==
    IF terms = <<>> THEN 0
    ELSE (IF Len(Head(terms)) > 2 /\ includes(text, Head(terms)) THEN 2 ELSE 0)
         + termScore(Tail(terms), text)

score(query, text) ==
    LET queryLower == toLowerCase(query)
        t == toLowerCase(text)
    IN  (IF includes(t, queryLower) THEN 10 ELSE 0) + termScore(split(queryLower), t)

simpleSearch(query, limit) ==
    IF query = "" \/ IsBlank(query) THEN <<>>
    ELSE LET scored == [i \in Records |->
                 [item |-> i, num |-> score(query, searchText(customerData[i])),
                  den |-> 1]]
         IN  items(slice(sortDescending(SelectSeq(scored, LAMBDA r : r.num > 0)),
                         limit))

(***************************************************************************)
(* The Embedding Provider (getEmbedding).  A request either fails or gives  *)
(* a vector; the vector of a text depends on the model the provider runs,   *)
(* and two models of different dimension are distinguished.                 *)
(***************************************************************************)
Models == {"dim2", "dim1"}

\* the vector of record i's descriptive text under a model
recordEmbedding(i, model) ==
    IF model = "dim2"
    THEN << <<1, 0>>, <<1, 1>>, <<0, 1>>, <<-1, 0>>, <<2, 0>>, <<0, 0>> >>[i]
    ELSE <<i>>

\* the vectors a query can be mapped to
QueryEmbeddings == { <<1, 0>>, <<0, 1>>, <<0, 0>>, <<1>> }

Failed == [ok |-> FALSE, embedding |-> <<>>]
Embedded(v) == [ok |-> TRUE, embedding |-> v]

\* the outcomes of getEmbedding(query)
QueryOutcomes == {Failed} \cup {Embedded(v) : v \in QueryEmbeddings}

(***************************************************************************)
(* cosineSimilarity.  dot/(sqrt(normA)*sqrt(normB)) is kept as the rational *)
(* dot*|dot| / (normA*normB), which has the same sign and the same order.   *)
(***************************************************************************)
RECURSIVE dot(_, _)
dot(vecA, vecB) ==
    IF vecA = <<>> THEN 0
    ELSE Head(vecA) * Head(vecB) + dot(Tail(vecA), Tail(vecB))

Abs(n) == IF n < 0 THEN -n ELSE n

dimensionsDiffer(vecA, vecB) == Len(vecA) # Len(vecB)

\* defined when the dimensions agree; otherwise the function throws
cosineSimilarity(vecA, vecB) ==
    LET dotProduct == dot(vecA, vecB)
        normA == dot(vecA, vecA)
        normB == dot(vecB, vecB)
    IN  IF normA = 0 \/ normB = 0 THEN [num |-> 0, den |-> 1]
        ELSE [num |-> dotProduct * Abs(dotProduct), den |-> normA * normB]

(***************************************************************************)
(* State.                                                                   *)
(***************************************************************************)
VARIABLES
    impl,           \* the revision of searchSimilarCustomers that is deployed
    db,             \* the module-level connection: "null" or "open"
    isInitialized,  \* the module-level flag of initVectorDb
    customersTbl,   \* table customers: record -> content of its row
    embeddingsTbl,  \* table embeddings: record -> stored vector
    population,     \* call of initVectorDb -> its run of populateDatabase
    upsert,         \* the call of addCustomerToVectorDb in progress
    call,           \* the retrieval request in progress and its outcome
    now,            \* Date.now()
    rateLimitMap,   \* caller identity -> timestamps of its accepted requests
    requests,       \* the chat requests in flight
    accepted        \* history: caller identity -> time -> accepted requests

vars == <<impl, db, isInitialized, customersTbl, embeddingsTbl, population,
          upsert, call, now, rateLimitMap, requests, accepted>>

storeVars == <<db, isInitialized, customersTbl, embeddingsTbl, population, upsert>>
throttleVars == <<now, rateLimitMap, requests, accepted>>

\* src/src/lib/vectorDb.ts, the copy in src/src/lib/init.ts, src/unnamed/part_003
Revisions == {"vectorDb", "init", "part_003"}

(***************************************************************************)
(* Similarity search over the store: the tail of searchSimilarCustomers.    *)
(***************************************************************************)
\* a join over keys that are not unique: a row for every pair of matching rows
allEmbeddings_rowPerPair ==
    LET joined == DOMAIN customersTbl \cap DOMAIN embeddingsTbl
        rows == SelectSeq([i \in Records |-> i], LAMBDA i : i \in joined)
    IN  rows \o rows

\* SELECT ... FROM customers c JOIN embeddings e ON c.customer_id = e.customer_id
allEmbeddings ==
    LET joined == DOMAIN customersTbl \cap DOMAIN embeddingsTbl
    IN  SelectSeq([i \in Records |-> i], LAMBDA i : i \in joined)

\* the score of one row: the inner try/catch turns a thrown comparison into 0
rowSimilarity(queryEmbedding, i) ==
    IF dimensionsDiffer(queryEmbedding, embeddingsTbl[i])
    THEN [num |-> 0, den |-> 1]
    ELSE cosineSimilarity(queryEmbedding, embeddingsTbl[i])

\* the filter lets a score of 0 pass
scoredResults_keepZero(queryEmbedding) ==
    LET rows == allEmbeddings
    IN  [k \in 1..Len(rows) |->
            [item |-> rows[k],
             num |-> rowSimilarity(queryEmbedding, rows[k]).num,
             den |-> rowSimilarity(queryEmbedding, rows[k]).den]]

scoredResults(queryEmbedding) ==
    LET rows == allEmbeddings
        scored == [k \in 1..Len(rows) |->
                      [item |-> rows[k],
                       num |-> rowSimilarity(queryEmbedding, rows[k]).num,
                       den |-> rowSimilarity(queryEmbedding, rows[k]).den]]
    IN  SelectSeq(scored, LAMBDA r : r.num > 0)

\* sort, slice(0, limit), map to the records of customerData, filter(Boolean)
topResults(queryEmbedding, limit) ==
    items(slice(sortDescending(scoredResults(queryEmbedding)), limit))

(***************************************************************************)
(* searchSimilarCustomers, one operator per revision.  The value is the     *)
(* list the promise resolves to (records by position) together with what    *)
(* the call did on the way: path taken, whether getEmbedding(query) was     *)
(* requested, whether the store was read, whether an exception was caught.  *)
(***************************************************************************)
Returned(result, path, embed, read, caught) ==
    [result |-> result, path |-> path, embedRequested |-> embed,
     storeRead |-> read, caught |-> caught, raised |-> FALSE]

allCustomers == [i \in Records |-> i]

\* (customerData as Customer[]).find(c => c.customerId.toUpperCase() === customerId)
exactCustomer(customerId) ==
    LET hits == SelectSeq(allCustomers, LAMBDA i :
                    toUpperCase(customerData[i].customerId) = customerId)
    IN  IF hits = <<>> THEN <<>> ELSE <<Head(hits)>>

\* allCustomers.filter(c => query.toLowerCase().includes(fullName.toLowerCase()))
potentialNameMatches(query) ==
    SelectSeq(allCustomers, LAMBDA i :
        includes(toLowerCase(query), toLowerCase(fullName(customerData[i]))))

\* the catch block of searchSimilarCustomers: part_003 returns [], the other
\* revisions return (customerData as Customer[]).slice(0, limit)
catchBlock(limit, embed) ==
    Returned(IF impl = "part_003" THEN <<>> ELSE slice(allCustomers, limit),
             "catch", embed, FALSE, TRUE)

\* from "const queryEmbedding = await getEmbedding(query)" to the end of the try:
\* a failed request throws, and so does db.prepare on a connection never opened
vectorSearchTail(limit, queryOutcome) ==
    IF ~queryOutcome.ok THEN catchBlock(limit, TRUE)
    ELSE IF db = "null" THEN catchBlock(limit, TRUE)
    ELSE Returned(topResults(queryOutcome.embedding, limit), "vector",
                  TRUE, TRUE, FALSE)

\* the identifier lookup, the name lookup, then the vector search
shortcutsThenVector(query, limit, queryOutcome) ==
    LET customerIdMatch == customerIdPattern(query)
        byId == IF customerIdMatch.found
                THEN exactCustomer(toUpperCase(customerIdMatch.group))
                ELSE <<>>
        byName == potentialNameMatches(query)
    IN  IF byId # <<>> THEN Returned(byId, "id", FALSE, FALSE, FALSE)
        ELSE IF byName # <<>>
             THEN Returned(slice(byName, limit), "name", FALSE, FALSE, FALSE)
             ELSE vectorSearchTail(limit, queryOutcome)

aboveThreshold(threshold) ==
    items(SelectSeq(sortedCustomers, LAMBDA c : c.num > threshold))

\* part_003: the branch of a product query inside "if (limit > 50)"
productQuery_part_003(query, limit) ==
    LET q == toLowerCase(query)
        listTopNMatch == topNPattern(query)
        moreThanMatch == moreThanPattern(query)
        listTopMatch == listTopPattern(query)
        listMatch == listPattern(query)
        filteredCustomers == aboveThreshold(parseInt(moreThanMatch.group))
    IN  IF listTopNMatch.found
        THEN slice(items(sortedCustomers), parseInt(listTopNMatch.group))
        ELSE IF includes(q, "more than") /\ includes(q, "product")
                /\ moreThanMatch.found
        THEN IF listTopMatch.found
             THEN slice(filteredCustomers, parseInt(listTopMatch.group))
             ELSE IF includes(q, "how many") /\ includes(q, "list")
             THEN slice(filteredCustomers,
                        IF listMatch.found THEN parseInt(listMatch.group) ELSE 5)
             ELSE slice(filteredCustomers, limit)
        ELSE slice(items(sortedCustomers), Min(Len(sortedCustomers), limit))

searchSimilarCustomers_part_003(query, limit, queryOutcome) ==
    IF limit > 50
    THEN IF includes(toLowerCase(query), "product")
         THEN Returned(productQuery_part_003(query, limit), "structured",
                       FALSE, FALSE, FALSE)
         ELSE Returned(slice(allCustomers, limit), "unranked", FALSE, FALSE, FALSE)
    ELSE shortcutsThenVector(query, limit, queryOutcome)

\* init.ts: the branch of a product query inside "if (isComprehensiveSearch)"
productQuery_init(query, limit) ==
    LET q == toLowerCase(query)
        listTopNMatch == topNPattern(query)
        numberMatch == moreThanOneBlankPattern(query)
        threshold == IF numberMatch.found THEN parseInt(numberMatch.group) ELSE 3
        filteredCustomers == aboveThreshold(threshold)
    IN  IF listTopNMatch.found
        THEN slice(items(sortedCustomers), parseInt(listTopNMatch.group))
        ELSE IF includes(q, "more than") /\ includes(q, "product")
        THEN IF includes(q, "top") \/ includes(q, "most")
             THEN slice(filteredCustomers, Min(Len(filteredCustomers), limit))
             ELSE slice(filteredCustomers, limit)
        ELSE slice(items(sortedCustomers), Min(Len(sortedCustomers), limit))

\* init.ts, after "await initVectorDb()" has returned
searchSimilarCustomers_init(query, limit, queryOutcome) ==
    IF limit > 50 /\ includes(toLowerCase(query), "product")
    THEN Returned(productQuery_init(query, limit), "structured",
                  FALSE, FALSE, FALSE)
    ELSE shortcutsThenVector(query, limit, queryOutcome)

\* vectorDb.ts, after "await initVectorDb()" has returned
searchSimilarCustomers_vectorDb(query, limit, queryOutcome) ==
    vectorSearchTail(limit, queryOutcome)

searchSimilarCustomers(query, limit, queryOutcome) ==
    IF impl = "part_003" THEN searchSimilarCustomers_part_003(query, limit, queryOutcome)
    ELSE IF impl = "init" THEN searchSimilarCustomers_init(query, limit, queryOutcome)
    ELSE searchSimilarCustomers_vectorDb(query, limit, queryOutcome)

(***************************************************************************)
(* The chat endpoint's query analysis (POST of part_002).                   *)
(***************************************************************************)
comprehensiveSearchPatterns ==
    << <<{"search"}, {"whole", "entire", "all", "complete", "full"}, {"database"}>>,
       <<{"all", "every"}, {"customer"}>>,
       <<{"how many customer"}>>,
       <<{"count"}, {"customer"}>>,
       <<{"number of customer"}>>,
       <<{"customer"}, {"with", "having", "more than"}>>,
       <<{"which customer"}>>,
       <<{"find"}, {"customer"}>> >>

searchWholeDatabase(query) ==
    \E k \in 1..Len(comprehensiveSearchPatterns) :
        test(comprehensiveSearchPatterns[k], query)

\* POST of part_001: /list top \d+ customers?/i and /top \d+ customers? with/i
topDigitsCustomer(t, before, after) ==
    \E k \in 1..Len(t) :
        /\ StartsAt(t, k, before)
        /\ DigitsAt(t, k + Len(before)) # 0
        /\ StartsAt(t, DigitsAt(t, k + Len(before)), after)

isComprehensiveSearch(userMessage) ==
    LET t == toLowerCase(userMessage)
    IN  \/ includes(t, "how many customers")
        \/ includes(t, "customer with more than")
        \/ includes(t, "customers with more than")
        \/ topDigitsCustomer(t, "list top ", " customer")
        \/ topDigitsCustomer(t, "top ", " customer with")
        \/ topDigitsCustomer(t, "top ", " customers with")
        \/ includes(t, "most product")
        \/ includes(t, "all customer")
        \/ includes(t, "count")

ComprehensiveLimit == 1000
DefaultLimit == 3

searchLimit(query) ==
    IF searchWholeDatabase(query) THEN ComprehensiveLimit ELSE DefaultLimit

(***************************************************************************)
(* Request throttle: the head of POST in route.ts and part_002, from        *)
(* "const clientIp = ..." to the end of the clean-up loop.  No await occurs *)
(* in it, so it runs to completion once the handler is entered.             *)
(***************************************************************************)
MAX_REQUESTS_PER_MINUTE == 10
ONE_MINUTE == 60 * 1000
CleanupSize == 1000

\* request.headers.get('x-forwarded-for') || 'unknown'
Callers == {"unknown", "10.0.0.1"}

TickMs == 30000     \* the clock is read at multiples of TickMs
MaxTime == 90000    \* last clock value explored
MaxBurst == 6       \* handler entries per clock value
MaxInFlight == 2    \* accepted requests of a caller still being served

NoRequests == [running |-> 0, checked |-> 0, lastRejected |-> -1]

\* a filter that never drops a timestamp
recentTimestamps_keepAll(timestamps, t) == timestamps

\* timestamps.filter(ts => now - ts < ONE_MINUTE)
recentTimestamps(timestamps, t) ==
    SelectSeq(timestamps, LAMBDA ts : t - ts < ONE_MINUTE)

\* the comparison with > in place of >=
overLimit_offByOne(recent) == Len(recent) > MAX_REQUESTS_PER_MINUTE

\* recentTimestamps.length >= MAX_REQUESTS_PER_MINUTE
overLimit(recent) == Len(recent) >= MAX_REQUESTS_PER_MINUTE

\* the entry is overwritten, as for a caller seen for the first time
recordTimestamp_overwrite(recent, t) == <<t>>

\* [...recentTimestamps, now]
recordTimestamp(recent, t) == Append(recent, t)

\* Map.prototype.set
mapSet(map, key, value) ==
    [k \in (DOMAIN map) \cup {key} |-> IF k = key THEN value ELSE map[k]]

\* callers with no recent timestamp are deleted, the others keep all their
\* timestamps
cleanUp_unpruned(map, t) ==
    [k \in {c \in DOMAIN map : recentTimestamps(map[c], t) # <<>>} |-> map[k]]

\* the clean-up loop: callers with no recent timestamp are deleted, the
\* others keep their recent timestamps
cleanUp(map, t) ==
    [k \in {c \in DOMAIN map : recentTimestamps(map[c], t) # <<>>} |->
        recentTimestamps(map[k], t)]

\* the ledger after a request of clientIp was let through at time t
ledgerAfterAccept(clientIp, t) ==
    LET set == IF clientIp \in DOMAIN rateLimitMap
               THEN mapSet(rateLimitMap, clientIp,
                           recordTimestamp(
                               recentTimestamps(rateLimitMap[clientIp], t), t))
               ELSE mapSet(rateLimitMap, clientIp, <<t>>)
    IN  IF Cardinality(DOMAIN set) > CleanupSize THEN cleanUp(set, t) ELSE set

\* the request is answered with status 429
tooManyRequests(clientIp, t) ==
    /\ clientIp \in DOMAIN rateLimitMap
    /\ overLimit(recentTimestamps(rateLimitMap[clientIp], t))

checkedNow == requests["unknown"].checked + requests["10.0.0.1"].checked

\* a request of clientIp enters the handler
Throttle(clientIp) ==
    /\ checkedNow < MaxBurst
    /\ IF tooManyRequests(clientIp, now)
       THEN /\ requests' = [requests EXCEPT ![clientIp].checked = @ + 1,
                                            ![clientIp].lastRejected = now]
            /\ UNCHANGED <<rateLimitMap, accepted>>
       ELSE /\ requests[clientIp].running < MaxInFlight
            /\ rateLimitMap' = ledgerAfterAccept(clientIp, now)
            /\ requests' = [requests EXCEPT ![clientIp].checked = @ + 1,
                                            ![clientIp].running = @ + 1]
            /\ accepted' = [accepted EXCEPT ![clientIp] = Append(@, now)]
    /\ UNCHANGED <<now, impl, call, storeVars>>

\* the rest of the handler of an accepted request runs and the answer is sent
Finish(clientIp) ==
    /\ requests[clientIp].running > 0
    /\ requests' = [requests EXCEPT ![clientIp].running = @ - 1]
    /\ UNCHANGED <<now, rateLimitMap, accepted, impl, call, storeVars>>

\* Date.now() moves on; the history keeps the accepted requests of the last
\* minute
Tick ==
    /\ now + TickMs <= MaxTime
    /\ now' = now + TickMs
    /\ requests' = [c \in Callers |-> [requests[c] EXCEPT !.checked = 0]]
    /\ accepted' = [c \in Callers |->
                       SelectSeq(accepted[c], LAMBDA ts : now' - ts < ONE_MINUTE)]
    /\ UNCHANGED <<rateLimitMap, impl, call, storeVars>>

(***************************************************************************)
(* Inputs of the model.                                                     *)
(***************************************************************************)
Queries ==
    { "", "  ",
      "products of CUST-100002",
      "cust-100002 email",
      "which customers have products like CUST-100002",
      "find customer CUST-100003",
      "CUST-100002 John Smith",
      "CUST-999999 Jane Doe",
      "email of john smith",
      "find all customers named John Smith",
      "which customers have products like Jane Doe",
      "top 2 customers with most products",
      "customers with more than 1 products",
      "customers with more than 1 products list top 1",
      "savings account",
      "how many customers live in Texas" }

(***************************************************************************)
(* initVectorDb and populateDatabase.                                       *)
(***************************************************************************)
EmptyTable == [i \in {} |-> <<>>]

\* the descriptive text of record i ("content"), built from the given
\* version of its data
content(i, version) == [customer |-> i, version |-> version]

\* no run of populateDatabase, no call of addCustomerToVectorDb in progress
NoPopulation == [pc |-> "idle", next |-> 1, inFlight |-> {},
                 completedDocuments |-> EmptyTable, model |-> "none"]
NoUpsert == [pc |-> "idle", customer |-> 0, version |-> 0, settled |-> "none"]

\* the calls of initVectorDb that may overlap in one process: the one of
\* initializeServices at import and the one of a first query
InitCalls == {"initializeServices", "searchSimilarCustomers"}
NoPopulations == [c \in InitCalls |-> NoPopulation]

\* the outcome of getEmbedding(doc.content) for record i: the provider fails
\* or answers with the model it runs at that moment
recordOutcome(i, answer) ==
    IF answer = "fail" THEN Failed ELSE Embedded(recordEmbedding(i, answer))

\* one answer per record of a population run: the provider runs one model
\* (EMBEDDING_MODEL) during the run, and any of its requests can fail
ProviderAnswers ==
    { answers \in [Records -> Models \cup {"fail"}] :
        \E model \in Models : \A i \in Records : answers[i] \in {model, "fail"} }

\* the transaction of populateDatabase: a row per record, a vector per
\* record whose embedding request succeeded
populateDatabase(answers) ==
    /\ customersTbl' = [i \in Records |-> content(i, 1)]
    /\ embeddingsTbl' = [i \in {j \in Records : recordOutcome(j, answers[j]).ok} |->
                            recordOutcome(i, answers[i]).embedding]

\* the table is populated whatever it holds
countIsZero_ignored == TRUE

\* "SELECT COUNT(*) as count FROM customers": count.count === 0
countIsZero == DOMAIN customersTbl = {}

\* initVectorDb when "new Database(DB_PATH)" succeeds
initVectorDb ==
    IF isInitialized THEN UNCHANGED storeVars
    ELSE /\ db' = "open"
         /\ IF countIsZero
            THEN \E answers \in ProviderAnswers : populateDatabase(answers)
            ELSE UNCHANGED <<customersTbl, embeddingsTbl>>
         /\ isInitialized' = TRUE
         /\ UNCHANGED <<population, upsert>>

\* initVectorDb when "new Database(DB_PATH)" throws: the error is rethrown
initVectorDbThrows == ~isInitialized /\ UNCHANGED storeVars

(***************************************************************************)
(* Retrieval requests.                                                      *)
(***************************************************************************)
NoOutcome == Returned(<<>>, "none", FALSE, FALSE, FALSE)
NotAsked == [ok |-> FALSE, embedding |-> <<>>]

\* throttle: what the rate limiting of the request decided ("none" while
\* the request has not passed through it)
Idle == [pc |-> "idle", query |-> "", limit |-> 0, status |-> "none",
         answer |-> NotAsked, out |-> NoOutcome, throttle |-> "none"]

Pending(query, limit) == [Idle EXCEPT !.pc = "pending", !.query = query,
                                      !.limit = limit]

\* searchSimilarCustomers has settled; answer is what getEmbedding(query) gave
Settled(out, queryOutcome) ==
    [call EXCEPT !.pc = "done", !.status = "ok", !.out = out,
                 !.answer = IF out.embedRequested THEN queryOutcome ELSE NotAsked]

\* init.ts: initializeServices() runs when the module is imported
initializeServices ==
    /\ call.pc = "idle"
    /\ db = "null" /\ ~isInitialized
    /\ \/ initVectorDb
       \/ initVectorDbThrows
    /\ UNCHANGED <<impl, call>>
    /\ UNCHANGED throttleVars

\* route.ts, from "const { query } = await request.json()" to the call of
\* searchSimilarCustomers(query, 3)
POST_route(query) ==
    /\ call.pc = "idle"
    /\ IF query = "" \/ IsBlank(query)
       THEN call' = [Idle EXCEPT !.pc = "done", !.query = query,
                                 !.status = "bad_request"]
       ELSE call' = Pending(query, DefaultLimit)
    /\ UNCHANGED <<impl, storeVars>>
    /\ UNCHANGED throttleVars

\* POST of part_002: the same, with the limit set by the query analysis
POST_part_002(query) ==
    /\ call.pc = "idle"
    /\ IF query = "" \/ IsBlank(query)
       THEN call' = [Idle EXCEPT !.pc = "done", !.query = query,
                                 !.status = "bad_request"]
       ELSE call' = Pending(query, searchLimit(query))
    /\ UNCHANGED <<impl, storeVars>>
    /\ UNCHANGED throttleVars

\* POST of part_001 with a body { messages: [..., { content: userMessage }] }:
\* the message is passed on whatever it is
POST_part_001(userMessage) ==
    /\ call.pc = "idle"
    /\ call' = Pending(userMessage, IF isComprehensiveSearch(userMessage)
                                    THEN ComprehensiveLimit ELSE DefaultLimit)
    /\ UNCHANGED <<impl, storeVars>>
    /\ UNCHANGED throttleVars

\* vectorDb.ts and init.ts: "await initVectorDb()" at the head of the try
SearchInit ==
    /\ call.pc = "pending"
    /\ impl # "part_003"
    /\ \/ /\ initVectorDb
          /\ call' = [call EXCEPT !.pc = "initialized"]
       \/ /\ initVectorDbThrows
          /\ call' = Settled(catchBlock(call.limit, FALSE), NotAsked)
    /\ UNCHANGED impl
    /\ UNCHANGED throttleVars

\* the rest of searchSimilarCustomers, for an outcome of getEmbedding(query)
SearchBody(queryOutcome) ==
    /\ call.pc = IF impl = "part_003" THEN "pending" ELSE "initialized"
    /\ call' = Settled(searchSimilarCustomers(call.query, call.limit, queryOutcome),
                       queryOutcome)
    /\ UNCHANGED <<impl, storeVars>>
    /\ UNCHANGED throttleVars

\* the handler answers; the next request can be made
Respond ==
    /\ call.pc = "done"
    /\ call' = Idle
    /\ UNCHANGED <<impl, storeVars>>
    /\ UNCHANGED throttleVars

(***************************************************************************)
(* The chat endpoint as a whole: rate limiting, then the request body, then *)
(* retrieval.  The steps are separated by the awaits of the handler.        *)
(***************************************************************************)
\* route.ts 25-56 and part_002 143-174 for the request in progress: status
\* 429 and nothing else, or the timestamp is recorded and the handler goes on
Admit(clientIp) ==
    /\ call.pc = "idle"
    /\ checkedNow < MaxBurst
    /\ IF tooManyRequests(clientIp, now)
       THEN /\ call' = [Idle EXCEPT !.pc = "done",
                                    !.status = "too_many_requests",
                                    !.throttle = "rejected"]
            /\ requests' = [requests EXCEPT ![clientIp].checked = @ + 1,
                                            ![clientIp].lastRejected = now]
            /\ UNCHANGED <<rateLimitMap, accepted>>
       ELSE /\ call' = [Idle EXCEPT !.pc = "admitted", !.throttle = "accepted"]
            /\ rateLimitMap' = ledgerAfterAccept(clientIp, now)
            /\ requests' = [requests EXCEPT ![clientIp].checked = @ + 1]
            /\ accepted' = [accepted EXCEPT ![clientIp] = Append(@, now)]
    /\ UNCHANGED <<now, impl, storeVars>>

\* an admitted request whose body holds the query: status 400, or retrieval
\* is called with the limit
Parse(query, limit) ==
    /\ call.pc = "admitted"
    /\ IF query = "" \/ IsBlank(query)
       THEN call' = [call EXCEPT !.pc = "done", !.query = query,
                                 !.status = "bad_request"]
       ELSE call' = [call EXCEPT !.pc = "pending", !.query = query,
                                 !.limit = limit]
    /\ UNCHANGED <<impl, storeVars>>
    /\ UNCHANGED throttleVars

\* route.ts 58-72 after the rate limiting
Parse_route(query) == Parse(query, DefaultLimit)

\* part_002 176-219 after the rate limiting
Parse_part_002(query) == Parse(query, searchLimit(query))

\* the request bodies of the endpoint as a whole
EndpointQueries == {"", "savings account", "find customer CUST-100003"}

(***************************************************************************)
(* The store step by step: initVectorDb, populateDatabase with its batches  *)
(* of provider requests and its transaction, addCustomerToVectorDb, and the *)
(* death of the process, which loses the memory and keeps the store file.   *)
(***************************************************************************)
BATCH_SIZE == 5

\* documents.slice(i, i + BATCH_SIZE), the documents counted from 1
batch(next) == {r \in Records : next <= r /\ r < next + BATCH_SIZE}

\* initVectorDb up to "if (count.count === 0)": the connection is opened;
\* populateDatabase starts on an empty table, otherwise the flag is set.
\* Only the flag keeps a call from doing this, and it is set at the end.
BeginInit(c) ==
    /\ ~isInitialized
    /\ population[c].pc = "idle"
    /\ upsert.pc = "idle"
    /\ db' = "open"
    /\ IF countIsZero
       THEN /\ \E model \in Models :
                  /\ \A d \in InitCalls :
                        population[d].pc = "idle" \/ population[d].model = model
                  /\ population' =
                        [population EXCEPT
                            ![c] = [NoPopulation EXCEPT !.pc = "embedding",
                                                        !.model = model]]
            /\ UNCHANGED isInitialized
       ELSE /\ isInitialized' = TRUE
            /\ UNCHANGED population
    /\ UNCHANGED <<customersTbl, embeddingsTbl, upsert, impl, call>>
    /\ UNCHANGED throttleVars

\* one turn of the loop up to "await Promise.all(batchPromises)": a request
\* per document of the batch is sent
IssueBatch(c) ==
    /\ population[c].pc = "embedding"
    /\ population[c].inFlight = {}
    /\ population[c].next <= Len(customerData)
    /\ population' = [population EXCEPT
                         ![c].inFlight = batch(population[c].next),
                         ![c].next = @ + BATCH_SIZE]
    /\ UNCHANGED <<db, isInitialized, customersTbl, embeddingsTbl, upsert,
                   impl, call>>
    /\ UNCHANGED throttleVars

\* the documents whose request the provider may fail: one of each batch
FailingRecords == {3, 6}

\* getEmbedding(doc.content) settles for document r: the document is kept
\* with its embedding, or without one when the request failed
EmbeddingSettles(c, r, ok) ==
    /\ r \in population[c].inFlight
    /\ ok \/ r \in FailingRecords
    /\ population' =
          [population EXCEPT
              ![c].inFlight = @ \ {r},
              ![c].completedDocuments =
                  mapSet(@, r, IF ok THEN population[c].model ELSE "fail")]
    /\ UNCHANGED <<db, isInitialized, customersTbl, embeddingsTbl, upsert,
                   impl, call>>
    /\ UNCHANGED throttleVars

\* the rows that insertCustomer and insertEmbedding write for the documents
customerRows(documents) == [i \in DOMAIN documents |-> content(i, 1)]

\* a run with a failed request stores no vector at all
embeddingRows_noneAfterFailure(documents) ==
    IF \E j \in DOMAIN documents : documents[j] = "fail" THEN EmptyTable
    ELSE [i \in DOMAIN documents |-> recordOutcome(i, documents[i]).embedding]

embeddingRows(documents) ==
    [i \in {j \in DOMAIN documents : recordOutcome(j, documents[j]).ok} |->
        recordOutcome(i, documents[i]).embedding]

\* union of two tables with disjoint keys
insertRows(table, rows) ==
    [i \in DOMAIN table \cup DOMAIN rows |->
        IF i \in DOMAIN rows THEN rows[i] ELSE table[i]]

\* the first k documents, in order
firstDocuments(documents, k) ==
    [i \in {j \in DOMAIN documents : j <= k} |-> documents[i]]

\* every insert is committed on its own: the rows of the first k documents
\* stay when the process dies after k of them
transaction_autocommit(documents, k) ==
    [customers |-> insertRows(customersTbl,
                              customerRows(firstDocuments(documents, k))),
     embeddings |-> insertRows(embeddingsTbl,
                               embeddingRows(firstDocuments(documents, k)))]

\* db.transaction(...)(completedDocuments) when the process dies after k
\* inserts (k = the number of documents: it does not die): the tables after
\* it.  INSERT fails on a key that is there, and what fails or is cut short
\* is rolled back.
transaction(documents, k) ==
    IF k < Cardinality(DOMAIN documents)
          \/ DOMAIN documents \cap DOMAIN customersTbl # {}
    THEN [customers |-> customersTbl, embeddings |-> embeddingsTbl]
    ELSE [customers |-> insertRows(customersTbl, customerRows(documents)),
          embeddings |-> insertRows(embeddingsTbl, embeddingRows(documents))]

\* the process dies: module state is lost, the store file stays
processDies ==
    /\ db' = "null"
    /\ isInitialized' = FALSE
    /\ population' = NoPopulations
    /\ upsert' = NoUpsert
    /\ call' = Idle
    /\ rateLimitMap' = EmptyTable
    /\ requests' = [c \in Callers |-> NoRequests]
    /\ accepted' = [c \in Callers |-> <<>>]

\* "transaction(completedDocuments)" and the return to initVectorDb, which
\* sets the flag, or rethrows what the transaction threw
Commit(c) ==
    /\ population[c].pc = "embedding"
    /\ population[c].inFlight = {}
    /\ population[c].next > Len(customerData)
    /\ \E k \in 0..Len(customerData) :
          LET after == transaction(population[c].completedDocuments, k)
          IN  /\ customersTbl' = after.customers
              /\ embeddingsTbl' = after.embeddings
              /\ IF k < Len(customerData)
                 THEN processDies /\ UNCHANGED now
                 ELSE /\ isInitialized' =
                            (isInitialized
                               \/ DOMAIN population[c].completedDocuments
                                      \cap DOMAIN customersTbl = {})
                      /\ population' = [population EXCEPT ![c] = NoPopulation]
                      /\ UNCHANGED <<db, upsert, call>>
                      /\ UNCHANGED throttleVars
    /\ UNCHANGED impl

\* the process dies outside the transaction
Crash ==
    /\ db = "open"
    /\ processDies
    /\ UNCHANGED <<customersTbl, embeddingsTbl, now, impl>>

\* the customers addCustomerToVectorDb is called with, and the versions of
\* their data: 1 as in the collection, 2 changed
UpsertCustomers == {2, 6}
Versions == {1, 2}

\* the vector of the text of record i in a version of its data
textEmbedding(i, version, model) ==
    IF version = 1 THEN recordEmbedding(i, model)
    ELSE IF model = "dim2" THEN <<i, 1>> ELSE <<0 - i>>

\* addCustomerToVectorDb(customer) up to "await getEmbedding(content)";
\* initVectorDb returns at once, the store being initialised
BeginUpsert(r, version) ==
    /\ isInitialized
    /\ upsert.pc = "idle"
    /\ upsert' = [pc |-> "embedding", customer |-> r, version |-> version,
                  settled |-> "none"]
    /\ UNCHANGED <<db, isInitialized, customersTbl, embeddingsTbl, population,
                   impl, call>>
    /\ UNCHANGED throttleVars

\* INSERT OR IGNORE: a row that is there is kept
replaceRow_keepExisting(table, key, row) ==
    IF key \in DOMAIN table THEN table ELSE mapSet(table, key, row)

\* INSERT OR REPLACE of one row
replaceRow(table, key, row) == mapSet(table, key, row)

\* getEmbedding(content) settles: a failure is rethrown and nothing is
\* written; otherwise insertCustomer.run and insertEmbedding.run follow
UpsertSettles(answer) ==
    /\ upsert.pc = "embedding"
    /\ IF answer = "fail"
       THEN UNCHANGED <<customersTbl, embeddingsTbl>>
       ELSE /\ customersTbl' =
                  replaceRow(customersTbl, upsert.customer,
                             content(upsert.customer, upsert.version))
            /\ embeddingsTbl' =
                  replaceRow(embeddingsTbl, upsert.customer,
                             textEmbedding(upsert.customer, upsert.version,
                                           answer))
    /\ upsert' = [NoUpsert EXCEPT !.settled = IF answer = "fail"
                                              THEN "rejected"
                                              ELSE "resolved"]
    /\ UNCHANGED <<db, isInitialized, population, impl, call>>
    /\ UNCHANGED throttleVars

\* the process dies between insertCustomer.run and insertEmbedding.run
UpsertCutShort ==
    /\ upsert.pc = "embedding"
    /\ customersTbl' = replaceRow(customersTbl, upsert.customer,
                                  content(upsert.customer, upsert.version))
    /\ processDies
    /\ UNCHANGED <<embeddingsTbl, now, impl>>

\* a fresh process: no connection, an empty store file, an empty ledger
InitProcess ==
    /\ db = "null"
    /\ isInitialized = FALSE
    /\ customersTbl = EmptyTable
    /\ embeddingsTbl = EmptyTable
    /\ population = NoPopulations
    /\ upsert = NoUpsert
    /\ call = Idle
    /\ now = 0
    /\ rateLimitMap = EmptyTable
    /\ requests = [c \in Callers |-> NoRequests]
    /\ accepted = [c \in Callers |-> <<>>]

Init ==
    /\ impl \in Revisions
    /\ InitProcess

Next ==
    \/ initializeServices
    \/ \E query \in Queries : POST_route(query)
    \/ \E query \in Queries : POST_part_002(query)
    \/ \E query \in Queries : POST_part_001(query)
    \/ SearchInit
    \/ \E queryOutcome \in QueryOutcomes : SearchBody(queryOutcome)
    \/ Respond

Spec == Init /\ [][Next]_vars

\* route.ts imports searchSimilarCustomers from "@/lib/vectorDb"
InitThrottle ==
    /\ impl = "vectorDb"
    /\ InitProcess

NextThrottle ==
    \/ \E clientIp \in Callers : Throttle(clientIp)
    \/ \E clientIp \in Callers : Finish(clientIp)
    \/ Tick

SpecThrottle == InitThrottle /\ [][NextThrottle]_vars

(***************************************************************************)
(* The throttle of a process that many callers have used: the ledger holds  *)
(* an entry for each of them, so that the clean-up loop comes into play.    *)
(***************************************************************************)
Digit == {"0", "1", "2", "3", "4", "5", "6", "7", "8", "9"}

\* the x-forwarded-for values of 1000 other callers
OtherCallers == {"c" \o a \o b \o c : a \in Digit, b \in Digit, c \in Digit}

\* when caller k made its requests: some at time 0, some at TickMs, some both
earlierRequests(k) ==
    LET last == SubSeq(k, 4, 4)
    IN  IF last \in {"0", "1", "2", "3"} THEN <<0>>
        ELSE IF last \in {"4", "5", "6"} THEN <<0, TickMs>>
        ELSE <<TickMs>>

\* at time TickMs all of the other callers have been recorded, or all but one
InitCleanup ==
    /\ impl = "vectorDb"
    /\ db = "null"
    /\ isInitialized = FALSE
    /\ customersTbl = EmptyTable
    /\ embeddingsTbl = EmptyTable
    /\ population = NoPopulations
    /\ upsert = NoUpsert
    /\ call = Idle
    /\ now = TickMs
    /\ \E known \in {OtherCallers, OtherCallers \ {"c000"}} :
          rateLimitMap = [k \in known |-> earlierRequests(k)]
    /\ requests = [c \in Callers |-> NoRequests]
    /\ accepted = [c \in Callers |-> <<>>]

SpecCleanup == InitCleanup /\ [][NextThrottle]_vars

\* the store as a population run in which every request succeeded leaves it
populatedStore == [i \in Records |-> recordEmbedding(i, "dim2")]

\* a process started over the store file of an earlier process
InitRestarted ==
    /\ db = "null"
    /\ isInitialized = FALSE
    /\ customersTbl = [i \in Records |-> content(i, 1)]
    /\ embeddingsTbl = populatedStore
    /\ population = NoPopulations
    /\ upsert = NoUpsert
    /\ call = Idle
    /\ now = 0
    /\ rateLimitMap = EmptyTable
    /\ requests = [c \in Callers |-> NoRequests]
    /\ accepted = [c \in Callers |-> <<>>]

InitEndpoint ==
    /\ impl = "vectorDb"
    /\ InitRestarted

NextEndpoint ==
    \/ Admit("unknown")
    \/ \E query \in EndpointQueries : Parse_route(query)
    \/ \E query \in EndpointQueries : Parse_part_002(query)
    \/ \E userMessage \in EndpointQueries : POST_part_001(userMessage)
    \/ SearchInit
    \/ \E queryOutcome \in QueryOutcomes : SearchBody(queryOutcome)
    \/ Respond
    \/ Tick

SpecEndpoint == InitEndpoint /\ [][NextEndpoint]_vars

InitStore ==
    /\ impl = "vectorDb"
    /\ InitProcess

NextStore ==
    \/ \E c \in InitCalls : BeginInit(c)
    \/ \E c \in InitCalls : IssueBatch(c)
    \/ \E c \in InitCalls, r \in Records, ok \in BOOLEAN :
          EmbeddingSettles(c, r, ok)
    \/ \E c \in InitCalls : Commit(c)
    \/ Crash
    \/ \E r \in UpsertCustomers, version \in Versions : BeginUpsert(r, version)
    \/ \E answer \in Models \cup {"fail"} : UpsertSettles(answer)
    \/ UpsertCutShort

SpecStore == InitStore /\ [][NextStore]_vars

(***************************************************************************)
(* Retrieval for the questions about product counts.                        *)
(***************************************************************************)
ProductQueries ==
    { "top 2 customers with most products",
      "3 customers with highest product count",
      "top 9 customers by product count",
      "top 3 customers with more than 3 products",
      "customers with more than 1 products",
      "customers with more than 1 products list top 1",
      "list 1 customers with more than 1 products",
      "how many customers have more than 1 products? list 1" }

NextProduct ==
    \/ \E query \in ProductQueries : POST_part_002(query)
    \/ \E userMessage \in ProductQueries : POST_part_001(userMessage)
    \/ SearchInit
    \/ \E queryOutcome \in QueryOutcomes : SearchBody(queryOutcome)
    \/ Respond

SpecProduct == Init /\ [][NextProduct]_vars

(***************************************************************************)
(* The two rankers on their own: the similarity search over a store left    *)
(* by a population run, and the lexical search over the collection.         *)
(***************************************************************************)
RankerLimits == {0, 1, 3, 6}
RankerQueries ==
    {"", "savings account", "email of john smith",
     "how many customers live in Texas", "account savings account"}

\* the tail of searchSimilarCustomers for a query the provider has embedded
similaritySearch(queryEmbedding, limit) ==
    /\ call.pc = "idle"
    /\ call' = [Idle EXCEPT
                   !.pc = "done", !.status = "ok", !.limit = limit,
                   !.answer = Embedded(queryEmbedding),
                   !.out = Returned(topResults(queryEmbedding, limit),
                                    "vector", TRUE, TRUE, FALSE)]
    /\ UNCHANGED <<impl, storeVars>>
    /\ UNCHANGED throttleVars

\* simpleSearch(query, limit) of vectorStore.ts, searchCustomers of part_002
lexicalSearch(query, limit) ==
    /\ call.pc = "idle"
    /\ call' = [Idle EXCEPT
                   !.pc = "done", !.status = "ok", !.query = query,
                   !.limit = limit,
                   !.out = Returned(simpleSearch(query, limit), "simple",
                                    FALSE, FALSE, FALSE)]
    /\ UNCHANGED <<impl, storeVars>>
    /\ UNCHANGED throttleVars

\* an initialised process over the store of any population run
InitRankers ==
    /\ impl = "vectorDb"
    /\ db = "open"
    /\ isInitialized = TRUE
    /\ customersTbl = [i \in Records |-> content(i, 1)]
    /\ \E answers \in ProviderAnswers :
          embeddingsTbl =
              [i \in {j \in Records : recordOutcome(j, answers[j]).ok} |->
                  recordOutcome(i, answers[i]).embedding]
    /\ population = NoPopulations
    /\ upsert = NoUpsert
    /\ call = Idle
    /\ now = 0
    /\ rateLimitMap = EmptyTable
    /\ requests = [c \in Callers |-> NoRequests]
    /\ accepted = [c \in Callers |-> <<>>]

NextRankers ==
    \/ \E queryEmbedding \in QueryEmbeddings, limit \in RankerLimits :
          similaritySearch(queryEmbedding, limit)
    \/ \E query \in RankerQueries, limit \in RankerLimits :
          lexicalSearch(query, limit)
    \/ Respond

SpecRankers == InitRankers /\ [][NextRankers]_vars

(***************************************************************************)
(* Properties of retrieval.                                                 *)
(***************************************************************************)
\* searchSimilarCustomers was called and has settled
SearchDone == call.pc = "done" /\ call.status = "ok"

\* the records whose identifier occurs in the query, case-insensitively
idsInQuery(query) ==
    {i \in Records :
        includes(toUpperCase(query), toUpperCase(customerData[i].customerId))}

\* the records whose full name occurs in the query, in collection order
namesInQuery(query) ==
    SelectSeq(allCustomers, LAMBDA i :
        includes(toLowerCase(query), toLowerCase(fullName(customerData[i]))))

\* C1: a query that contains the identifier of a record of the collection is
\* answered with exactly that record, whatever else the query contains.
C1_IdentifierShortcut ==
    (SearchDone /\ impl \in {"init", "part_003"} /\ ~call.out.caught) =>
        \A i \in idsInQuery(call.query) : call.out.result = <<i>>

\* C2: a query that contains the full name of a record and no existing
\* identifier is answered with the records so named, in collection order, cut
\* to the limit, without an embedding request and without reading the store.
C2_NameShortcut ==
    (SearchDone /\ impl \in {"init", "part_003"} /\ ~call.out.caught
                /\ idsInQuery(call.query) = {}
                /\ namesInQuery(call.query) # <<>>) =>
        /\ call.out.result = slice(namesInQuery(call.query), call.limit)
        /\ ~call.out.embedRequested
        /\ ~call.out.storeRead

\* C3: when no shortcut matches and the provider fails on the query, the call
\* returns the lexical search's result for the same query and limit.
C3_ProviderFailureFallsBackToLexical ==
    (SearchDone /\ call.out.embedRequested /\ ~call.answer.ok) =>
        call.out.result = simpleSearch(call.query, call.limit)

\* a stored vector whose length differs from the query vector's
mismatchStored ==
    \E i \in DOMAIN customersTbl \cap DOMAIN embeddingsTbl :
        Len(embeddingsTbl[i]) # Len(call.answer.embedding)

\* C4: when a stored vector's length differs from the query vector's, the
\* call returns the lexical search's result.
C4_DimensionMismatchFallsBackToLexical ==
    (SearchDone /\ call.out.path = "vector" /\ mismatchStored) =>
        call.out.result = simpleSearch(call.query, call.limit)

\* C5: when the store holds no entry, a call that reaches the vector path
\* returns the lexical search's result.
C5_EmptyStoreFallsBackToLexical ==
    (SearchDone /\ call.out.path = "vector"
                /\ DOMAIN customersTbl \cap DOMAIN embeddingsTbl = {}) =>
        call.out.result = simpleSearch(call.query, call.limit)

\* C6: a retrieval call never raises: whatever fails, it settles with a list,
\* and the list is empty when the failure was caught and not recovered by the
\* lexical search.
C6_NeverRaises ==
    call.pc = "done" =>
        /\ ~call.out.raised
        /\ call.out.caught =>
              \/ call.out.result = <<>>
              \/ call.out.result = simpleSearch(call.query, call.limit)

\* C7: an empty or whitespace-only query gives an empty result with no
\* embedding request (the calls in which nothing failed are enough to tell).
C7_EmptyQueryEmptyResult ==
    (SearchDone /\ IsBlank(call.query) /\ ~call.out.caught) =>
        /\ call.out.result = <<>>
        /\ ~call.out.embedRequested

(***************************************************************************)
(* Properties of the request throttle.  accepted[c] lists the timestamps of *)
(* the requests of c that were let through during the last minute.          *)
(***************************************************************************)
\* the accepted requests of c that are less than a minute old, and those of
\* them accepted before, respectively at, the present clock value
inWindow(c) == SelectSeq(accepted[c], LAMBDA ts : now - ts < ONE_MINUTE)
earlierInWindow(c) == SelectSeq(inWindow(c), LAMBDA ts : ts < now)
acceptedNow(c) == SelectSeq(inWindow(c), LAMBDA ts : ts = now)

\* C8: at most 10 requests of a caller are accepted within any window of one
\* minute.
C8_AtMostTenPerWindow ==
    \A c \in Callers : Len(inWindow(c)) <= 10

\* a request arrived when 10 accepted requests were less than a minute old,
\* and was rejected
C8_Witness ==
    \E c \in Callers : Len(inWindow(c)) = 10 /\ requests[c].lastRejected = now

\* a request of c entered the handler in this step
Checked(c) == requests'[c].checked = requests[c].checked + 1
LetThrough(c) == accepted'[c] = Append(accepted[c], now)

\* C9: a request is accepted exactly when fewer than 10 accepted requests of
\* its caller are less than a minute old, and a rejected request leaves the
\* ledger as it was.
C9_AcceptedWheneverBelowCap ==
    [][\A c \in Callers : Checked(c) =>
            /\ LetThrough(c) <=> Len(inWindow(c)) < 10
            /\ ~LetThrough(c) => rateLimitMap' = rateLimitMap]_vars

\* a caller that was rejected earlier has a request accepted now
C9_Witness ==
    \E c \in Callers :
        /\ requests[c].lastRejected >= 0
        /\ requests[c].lastRejected < now
        /\ acceptedNow(c) # <<>>

Max(a, b) == IF a > b THEN a ELSE b

\* the timestamps of c in the ledger that are less than a minute old
ledgerInWindow(c) ==
    IF c \in DOMAIN rateLimitMap
    THEN SelectSeq(rateLimitMap[c], LAMBDA ts : now - ts < ONE_MINUTE)
    ELSE <<>>

\* C10: with k recent timestamps, of m requests of a caller that enter the
\* handler at one clock value exactly min(m, 10 - k) are accepted, and the
\* ledger then holds k plus that many recent timestamps: none is lost.
C10_NoTimestampLost ==
    \A c \in Callers :
        /\ Len(acceptedNow(c)) =
              Min(requests[c].checked, Max(0, 10 - Len(earlierInWindow(c))))
        /\ ledgerInWindow(c) = inWindow(c)

\* requests of one caller overlap: two are still being served, at least
\* three entered at this clock value, one of them was rejected
C10_Witness ==
    \E c \in Callers :
        /\ requests[c].running >= 2
        /\ requests[c].checked >= 3
        /\ requests[c].lastRejected = now
        /\ earlierInWindow(c) # <<>>

(***************************************************************************)
(* Properties of the endpoint as a whole.                                   *)
(***************************************************************************)
\* searchSimilarCustomers has been called for the request in progress
RetrievalCalled == call.pc \in {"pending", "initialized"} \/ SearchDone

\* C11: retrieval is called only for a request that the rate limiting has
\* accepted, and a rejected request ends with the "too many requests" status
\* without retrieval or generation.
C11_ThrottleGuardsRetrieval ==
    /\ RetrievalCalled => call.throttle = "accepted"
    /\ call.throttle = "rejected" =>
          /\ call.pc = "done"
          /\ call.status = "too_many_requests"
          /\ call.out = NoOutcome

(***************************************************************************)
(* Properties of the store.                                                 *)
(***************************************************************************)
\* C12: while a process has not finished initialising, a store that holds an
\* entry is not written and no provider request is made for it, however often
\* the process is started again.
C12_InitialisationKeepsPopulatedStore ==
    [][(~isInitialized /\ DOMAIN embeddingsTbl # {}) =>
          /\ customersTbl' = customersTbl
          /\ embeddingsTbl' = embeddingsTbl
          /\ population' = NoPopulations]_vars

\* a process initialised over the store file an earlier process left when it
\* died in the middle of an upsert: row and vector of a record differ in
\* version
C12_Witness ==
    /\ isInitialized
    /\ \E r \in UpsertCustomers :
          /\ r \in DOMAIN customersTbl /\ r \in DOMAIN embeddingsTbl
          /\ customersTbl[r] = content(r, 2)
          /\ embeddingsTbl[r] \in {textEmbedding(r, 1, m) : m \in Models}

\* the records a similarity search compares the query with
candidates == {allEmbeddings[k] : k \in 1..Len(allEmbeddings)}

\* the documents of a population run whose request succeeded
succeeded(documents) == {r \in DOMAIN documents : documents[r] # "fail"}

C14_PopulationAllOrNothing ==
    /\ DOMAIN customersTbl \in {{}, Records}
    /\ DOMAIN embeddingsTbl \subseteq DOMAIN customersTbl

\* the process has died after a run in which some requests failed: what the
\* next process finds is the whole of that run
C14_Witness ==
    /\ db = "null"
    /\ DOMAIN customersTbl = Records
    /\ DOMAIN embeddingsTbl # Records
    /\ \A r \in Records : customersTbl[r] = content(r, 1)

\* the provider requests of population that are in flight
requestsInFlight ==
    {x \in InitCalls \X Records : x[2] \in population[x[1]].inFlight}

\* the number of the batch of document r, counted from 0
batchOf(r) == (r - 1) \div BATCH_SIZE

\* C15: during population at most 5 embedding requests are in flight, and
\* while a request of a batch is in flight every document of the batches
\* before it has been completed.
C15_BatchesOfFive ==
    /\ Cardinality(requestsInFlight) <= BATCH_SIZE
    /\ \A x \in requestsInFlight : \A s \in Records :
          batchOf(s) < batchOf(x[2]) =>
              s \in DOMAIN population[x[1]].completedDocuments

\* the entry of record r: the text of its row and its vector, where stored
entry(r) ==
    [text   |-> IF r \in DOMAIN customersTbl
                THEN <<customersTbl[r]>> ELSE <<>>,
     vector |-> IF r \in DOMAIN embeddingsTbl
                THEN <<embeddingsTbl[r]>> ELSE <<>>]

\* addCustomerToVectorDb for record r returns in this step
upsertReturns(r) ==
    /\ upsert.pc = "embedding" /\ upsert.customer = r
    /\ upsert'.settled = "resolved"

C17_RankersReturnPositiveScoresOnly ==
    /\ (call.pc = "done" /\ call.out.path = "vector") =>
          /\ Len(call.out.result) <= call.limit
          /\ \A k \in 1..Len(call.out.result) :
                /\ call.out.result[k] \in DOMAIN embeddingsTbl
                /\ rowSimilarity(call.answer.embedding,
                                 call.out.result[k]).num > 0
    /\ (call.pc = "done" /\ call.out.path = "simple") =>
          /\ Len(call.out.result) <= call.limit
          /\ \A k \in 1..Len(call.out.result) :
                score(call.query,
                      searchText(customerData[call.out.result[k]])) > 0

\* the similarity search has returned "limit" records of a store that holds
\* more records with a positive score and one with a zero-norm vector
C17_Witness ==
    /\ call.pc = "done" /\ call.out.path = "vector"
    /\ call.limit > 0
    /\ Len(call.out.result) = call.limit
    /\ Len(scoredResults(call.answer.embedding)) > call.limit
    /\ \E r \in DOMAIN embeddingsTbl : dot(embeddingsTbl[r], embeddingsTbl[r]) = 0

\* customer.products.length
productCount(i) == Len(customerData[i].products)

\* a revision with the branch for product questions has answered a
\* comprehensive query that mentions "product"
ProductQueryDone ==
    /\ SearchDone
    /\ impl \in {"part_003", "init"}
    /\ call.limit > 50
    /\ includes(toLowerCase(call.query), "product")

returned == {call.out.result[k] : k \in 1..Len(call.out.result)}

\* the records with more than K products, K the number after "more than"
aboveK ==
    {i \in Records :
        productCount(i) > parseInt(moreThanPattern(call.query).group)}

\* C18: a comprehensive product query with "top N customers" (or "N
\* customers with most/highest/greatest") is answered with min(N, size of
\* the collection) records, by product count from the highest, records of
\* equal count in the order of the collection, and no record left out has
\* more products than one returned.
C18_TopNByProductCount ==
    (ProductQueryDone /\ topNPattern(call.query).found) =>
        LET result == call.out.result
            N == parseInt(topNPattern(call.query).group)
        IN  /\ Len(result) = Min(N, Len(customerData))
            /\ \A k \in 1..(Len(result) - 1) :
                  \/ productCount(result[k]) > productCount(result[k + 1])
                  \/ /\ productCount(result[k]) = productCount(result[k + 1])
                     /\ result[k] < result[k + 1]
            /\ \A i \in Records \ returned : \A j \in returned :
                  productCount(i) <= productCount(j)

\* C19: every record returned for a comprehensive product query with "more
\* than K" has more than K products, whatever else the query contains.
C19_OnlyRecordsAboveK ==
    (/\ ProductQueryDone /\ ~call.out.caught
     /\ moreThanPattern(call.query).found) =>
        returned \subseteq aboveK

\* C20: a comprehensive product query with "more than K" and a "list N" or
\* "top N" clause is answered with min(N, number of records above K)
\* records; without such a clause with the records above K, up to the limit.
C20_CountOfRecordsAboveK ==
    (/\ ProductQueryDone /\ ~call.out.caught
     /\ moreThanPattern(call.query).found) =>
        LET top == listTopPattern(call.query)
            list == listPattern(call.query)
            N == IF top.found THEN parseInt(top.group)
                 ELSE IF list.found THEN parseInt(list.group)
                 ELSE call.limit
        IN  Len(call.out.result) = Min(N, Cardinality(aboveK))

\* C21: a retrieval call only reads: while searchSimilarCustomers is running
\* no step of it changes what the two tables of the store hold.
C21_RetrievalOnlyReads ==
    [][call.pc \in {"pending", "initialized"} =>
          /\ customersTbl' = customersTbl
          /\ embeddingsTbl' = embeddingsTbl]_vars

\* C22: a query is retrieved with the limit 3, or, when it was classified
\* as comprehensive, with the size of the collection as limit; retrieval is
\* in comprehensive mode (limit > 50) for the latter only.
C22_LimitIsCollectionSizeOrThree ==
    call.pc \in {"pending", "initialized"} =>
        /\ call.limit \in {DefaultLimit, Len(customerData)}
        /\ call.limit > 50 => call.limit = Len(customerData)

\* a revision with the branch for product questions is answering a
\* comprehensive query that mentions "product"
ProductQueryRunning ==
    /\ call.pc \in {"pending", "initialized"}
    /\ impl \in {"part_003", "init"}
    /\ call.limit > 50
    /\ includes(toLowerCase(call.query), "product")

\* C23: while a comprehensive product query is answered the embedding layer
\* is not touched: no step of the call opens or initialises the store,
\* populates it, reads it or asks the provider for an embedding.
C23_ProductQueryLeavesEmbeddingLayer ==
    [][ProductQueryRunning =>
          /\ db' = db /\ isInitialized' = isInitialized
          /\ customersTbl' = customersTbl /\ embeddingsTbl' = embeddingsTbl
          /\ ~call'.out.embedRequested /\ ~call'.out.storeRead]_vars

\* C24: a comprehensive query without "product" that names no record by
\* identifier or full name is answered by the vector path, not by the first
\* "limit" records of the collection.
C24_ComprehensiveQueryIsRanked ==
    (/\ SearchDone /\ ~call.out.caught
     /\ impl \in {"part_003", "init"}
     /\ call.limit > 50
     /\ ~includes(toLowerCase(call.query), "product")
     /\ idsInQuery(call.query) = {} /\ namesInQuery(call.query) = <<>>) =>
        /\ call.out.path = "vector"
        /\ call.out.result = topResults(call.answer.embedding, call.limit)

\* the distinct terms of the query that count: longer than 2 characters and
\* part of the lower-cased text
matchingTerms(query, text) ==
    LET terms == split(toLowerCase(query))
    IN  {t \in {terms[k] : k \in 1..Len(terms)} :
            Len(t) > 2 /\ includes(toLowerCase(text), t)}

\* C25: the lexical score of a record is 10 when the lower-cased query is
\* part of its lower-cased text, plus 2 for every distinct term of the query
\* of more than 2 characters that is part of it.
C25_LexicalScore ==
    (call.pc = "done" /\ call.out.path = "simple") =>
        \A i \in Records :
            LET text == searchText(customerData[i])
            IN  score(call.query, text) =
                    (IF includes(toLowerCase(text), toLowerCase(call.query))
                     THEN 10 ELSE 0)
                    + 2 * Cardinality(matchingTerms(call.query, text))

\* C26: the run that populates the store leaves no row, in either table,
\* for a record whose embedding request failed; and an initialisation over
\* a populated store starts no run that would ask for it again.
C26_FailedRecordHasNoRow ==
    [][/\ \A c \in InitCalls :
             (/\ population[c].pc = "embedding" /\ population'[c].pc = "idle"
              /\ DOMAIN customersTbl = {} /\ DOMAIN customersTbl' # {}) =>
                \A r \in Records \ succeeded(population[c].completedDocuments) :
                    r \notin DOMAIN customersTbl' \cup DOMAIN embeddingsTbl'
       /\ DOMAIN customersTbl # {} =>
             \A c \in InitCalls :
                 population[c].pc = "idle" => population'[c].pc = "idle"]_vars

\* the timestamps of caller k in the ledger that lie inside the window
stampsInWindow(map, k, t) ==
    IF k \in DOMAIN map
    THEN SelectSeq(map[k], LAMBDA ts : t - ts < ONE_MINUTE)
    ELSE <<>>

\* C27: when a request of caller c is recorded, the other entries of the
\* ledger are left as they are unless the ledger then holds more than 1000
\* callers; in that case exactly the callers without a timestamp inside the
\* window are removed and each other caller keeps exactly its timestamps
\* inside the window.  The caller just recorded is kept, and for no caller
\* does the number of timestamps inside the window change.
C27_CleanupKeepsWindow ==
    [][\A c \in Callers :
          requests'[c].running = requests[c].running + 1 =>
             LET large == Cardinality(DOMAIN rateLimitMap \cup {c}) > 1000
             IN  /\ c \in DOMAIN rateLimitMap'
                 /\ stampsInWindow(rateLimitMap', c, now) =
                        Append(stampsInWindow(rateLimitMap, c, now), now)
                 /\ \A k \in DOMAIN rateLimitMap \ {c} :
                       IF large
                       THEN /\ k \in DOMAIN rateLimitMap' <=>
                                  stampsInWindow(rateLimitMap, k, now) # <<>>
                            /\ k \in DOMAIN rateLimitMap' =>
                                  rateLimitMap'[k] =
                                      stampsInWindow(rateLimitMap, k, now)
                       ELSE /\ k \in DOMAIN rateLimitMap'
                            /\ rateLimitMap'[k] = rateLimitMap[k]
                 /\ DOMAIN rateLimitMap' \subseteq DOMAIN rateLimitMap \cup {c}]_vars

\* the clean-up has removed the callers whose requests are older than the
\* window and kept the others, the caller just recorded among them
C27_Witness ==
    /\ now = 2 * TickMs
    /\ "unknown" \in DOMAIN rateLimitMap
    /\ "c000" \notin DOMAIN rateLimitMap
    /\ "c004" \in DOMAIN rateLimitMap /\ rateLimitMap["c004"] = <<TickMs>>
    /\ "c009" \in DOMAIN rateLimitMap

\* the score of record i under the ranker that answered the call
rankerScore(i) ==
    IF call.out.path = "vector"
    THEN rowSimilarity(call.answer.embedding, i)
    ELSE [num |-> score(call.query, searchText(customerData[i])), den |-> 1]

\* C28: the list a ranker returns, which is what the caller gets, is in the
\* order of the scores from the highest, and records of equal score are in
\* the order of the store, respectively of the collection.
C28_RankedDescendingStable ==
    (call.pc = "done" /\ call.out.path \in {"vector", "simple"}) =>
        \A k \in 1..(Len(call.out.result) - 1) :
            LET a == rankerScore(call.out.result[k])
                b == rankerScore(call.out.result[k + 1])
            IN  \/ a.num * b.den > b.num * a.den
                \/ /\ a.num * b.den = b.num * a.den
                   /\ call.out.result[k] < call.out.result[k + 1]

\* the similarity search has returned two records of equal score and one of
\* a lower score after them
C28_Witness ==
    /\ call.pc = "done" /\ call.out.path = "vector"
    /\ Len(call.out.result) = 3
    /\ rankerScore(call.out.result[1]) = [num |-> 1, den |-> 1]
    /\ rankerScore(call.out.result[2]).num = rankerScore(call.out.result[2]).den
    /\ rankerScore(call.out.result[3]).num < rankerScore(call.out.result[3]).den

\* the calls of initVectorDb that are running populateDatabase
populating == {c \in InitCalls : population[c].pc = "embedding"}

\* C29: of the calls of initVectorDb that overlap at most one runs
\* populateDatabase, so that none reaches its transaction with the rows of
\* another run in the store, and the store holds one row per record.
C29_PopulationRunsOnce ==
    /\ Cardinality(populating) <= 1
    /\ \A c \in populating : DOMAIN customersTbl = {}
    /\ DOMAIN customersTbl \in {{}, Records}


\* C30: whatever the query, the limit and the path taken, every record of the
\* list searchSimilarCustomers resolves to is a record of the collection, and
\* no customer identifier occurs in the list twice.
C30_ResultsAreDistinctMembers ==
    SearchDone =>
        LET result == call.out.result
        IN  /\ \A k \in 1..Len(result) : result[k] \in Records
            /\ \A j \in 1..Len(result) : \A k \in 1..Len(result) :
                  customerData[result[j]].customerId =
                      customerData[result[k]].customerId => j = k

\* a similarity search has returned as many records as the limit allows
C30_Witness ==
    /\ SearchDone
    /\ call.out.path = "vector"
    /\ call.limit = DefaultLimit
    /\ Len(call.out.result) = DefaultLimit

=============================================================================
